---- MODULE Spec2Model ----
(***************************************************************************)
(* Model of overlaylib: the Overlay (font registry, font stack, render     *)
(* submission) of src/src/lib.rs and the Frame batcher of                  *)
(* src/src/frame.rs, with the primitives of src/src/primitives/.           *)
(*                                                                         *)
(* A Frame borrows the Overlay immutably (frame.rs:10), so the operations  *)
(* that take &mut Overlay (push_font, pop_font, add_font_from_memory) are  *)
(* only callable while no Frame is alive.                                  *)
(*                                                                         *)
(* A vertex of the model does not carry coordinates; it carries where it   *)
(* came from: the ordinal of the add call that emitted it (prim), its      *)
(* position in that primitive's vertex list (n) and the texture the        *)
(* primitive is associated with (tex).                                     *)
(*                                                                         *)
(* The font atlas of src/src/font.rs is followed on its own (face, atlas,  *)
(* lookup), and so is the tessellation in space of a Line and a Rectangle  *)
(* (primitive, vertices), whose vertices do carry coordinates.             *)
(***************************************************************************)
EXTENDS Integers, Sequences, FiniteSets, TLC

\* ---------------------------------------------------------------- bounds
MaxAdds == 2        \* add calls on one frame between two clears
MaxAlternations == 2 \* pairs of adds in an alternation of two textures
MaxStack == 2       \* depth of the font stack
MaxFontId == 1      \* font ids are 0..MaxFontId
MaxTextureId == 1   \* explicit textures are 1..MaxTextureId
MaxDetail == 1      \* circle detail is 0..MaxDetail
MaxTextLen == 1     \* characters in a Text's string
MaxBitmapWidth == 1 \* a glyph bitmap is 0..MaxBitmapWidth pixels wide
MaxBitmapRows == 1  \* and 0..MaxBitmapRows pixels high
MaxCoord == 10      \* coordinates and dimensions are 0..MaxCoord
MaxThickness == 2   \* a line is 1..MaxThickness thick
MaxGlyphs == 2      \* characters of a Text tessellated on its own
MaxCallers == 3    \* threads calling FontAtlas::new
MaxSegments == 3   \* detail of a Circle tessellated on its own

\* ------------------------------------------------------ program constants
GlyphRange == 128        \* codes 0..127 have a glyph-table entry
LineVertices == 6        \* vertices get_line returns
RectangleVertices == 6   \* vertices Rectangle::get_vertices returns
TriangleVertices == 3    \* vertices Triangle::get_vertices returns
WedgeVertices == 3       \* vertices of one filled circle wedge
GlyphVertices == 6       \* vertices of one glyph quad
DefaultFont == 0         \* the font Frame::add gives a Text without one
Ratio == 69              \* the ratio 0.69 of Text::get_vertices, in hundredths

None == -1               \* Option::None for an id

Max(a, b) == IF a >= b THEN a ELSE b

FontIds == 0..MaxFontId
TextureIds == 1..MaxTextureId
\* a blank (32), a letter (65) and a code outside the glyph table (200)
Chars == {32, 65, 200}
Strings == UNION {[1..n -> Chars] : n \in 0..MaxTextLen}

\* --------------------------------------------------------------- textures
NoTexture == [kind |-> "none", id |-> 0]
FontTexture(f) == [kind |-> "font", id |-> f]
ExplicitTexture(t) == [kind |-> "texture", id |-> t]

\* The threads that build font atlases.
Callers == 1..MaxCallers

VARIABLES
    fonts,          \* Overlay.fonts: the ids registered
    font_stack,     \* Overlay.font_stack
    alive,          \* whether a Frame borrowing the Overlay exists
    shape_buffer,   \* Frame.shape_buffer
    text_buffer,    \* Frame.text_buffer
    emissions,      \* history: the adds since the frame was last empty
    target,         \* the draw calls the last step issued on the surface
    last,           \* the last operation and what it returned
    status,         \* "running", "panicked" or "killed"
    face,           \* the font data the last FontAtlas::new was given
    atlas,          \* the FontAtlas it built
    lookup,         \* the last get_glyph on that atlas and what it returned
    primitive,      \* the primitive last tessellated on its own
    vertices,       \* what its get_vertices returned
    LIBRARY,        \* the static LIBRARY: 0 is None, k the k-th instance made
    instances,      \* how many times FT_Init_FreeType was called
    pc,             \* where each caller of FontAtlas::new is
    library         \* the local `library` of each caller

overlay_vars == <<fonts, font_stack, alive, shape_buffer, text_buffer, emissions,
                  target, last, status>>
font_vars == <<face, atlas, lookup>>
tess_vars == <<primitive, vertices>>
engine_vars == <<LIBRARY, instances, pc, library>>
vars == <<overlay_vars, font_vars, tess_vars, engine_vars>>

\* -------------------------------------------------------------- primitives
LineShape ==
    [type |-> "Line", font |-> None, texture |-> None, text |-> <<>>,
     detail |-> 0, filled |-> FALSE, border |-> FALSE]

TriangleShape == [LineShape EXCEPT !.type = "Triangle"]

RectangleShape(t) == [LineShape EXCEPT !.type = "Rectangle", !.texture = t]

CircleShape(d, f, b) ==
    [LineShape EXCEPT !.type = "Circle", !.detail = d, !.filled = f, !.border = b]

TextShape(f, s) == [LineShape EXCEPT !.type = "Text", !.font = f, !.text = s]

\* The primitives a caller can build while `registered` are the fonts.
Shapes(registered) ==
    {LineShape, TriangleShape}
    \cup {RectangleShape(t) : t \in {None} \cup TextureIds}
    \cup {CircleShape(d, f, b) : d \in 0..MaxDetail, f \in BOOLEAN, b \in BOOLEAN}
    \cup {TextShape(f, s) : f \in {None} \cup registered, s \in Strings}

\* Primitive::get_type; Circle answers Line.
get_type(shape) ==
    IF shape.type = "Circle" THEN "Line" ELSE shape.type

\* FontAtlas::get_glyph: a miss for codes outside the table.
get_glyph(c) == IF c >= GlyphRange THEN None ELSE c

\* Whether the glyph of code c has pixels (w # 0 and h # 0); a blank has none.
HasPixels(c) == c # 32

\* The texture a primitive is associated with.
Texture(shape) ==
    CASE shape.type = "Text" -> FontTexture(shape.font)
      [] shape.type = "Rectangle" /\ shape.texture # None -> ExplicitTexture(shape.texture)
      [] OTHER -> NoTexture

\* Text::get_vertices unwraps the font and every glyph lookup.
Panics(shape) ==
    shape.type = "Text"
    /\ (shape.font = None \/ \E i \in 1..Len(shape.text) : get_glyph(shape.text[i]) = None)

\* A count in which a circle has one segment at least.
VertexCount_one_segment(shape) ==
    CASE shape.type = "Line" -> LineVertices
      [] shape.type = "Triangle" -> TriangleVertices
      [] shape.type = "Rectangle" -> RectangleVertices
      [] shape.type = "Circle" ->
            Max(shape.detail, 1) * ((IF shape.filled THEN WedgeVertices ELSE 0)
                                    + (IF shape.border THEN LineVertices ELSE 0))
      [] shape.type = "Text" ->
            GlyphVertices * Cardinality({i \in 1..Len(shape.text) : HasPixels(shape.text[i])})

\* How many vertices get_vertices returns.
VertexCount(shape) ==
    CASE shape.type = "Line" -> LineVertices
      [] shape.type = "Triangle" -> TriangleVertices
      [] shape.type = "Rectangle" -> RectangleVertices
      [] shape.type = "Circle" ->
            shape.detail * ((IF shape.filled THEN WedgeVertices ELSE 0)
                            + (IF shape.border THEN LineVertices ELSE 0))
      [] shape.type = "Text" ->
            GlyphVertices * Cardinality({i \in 1..Len(shape.text) : HasPixels(shape.text[i])})

\* Primitive::get_vertices, for the add call number id.
get_vertices(shape, id) ==
    [k \in 1..VertexCount(shape) |-> [prim |-> id, n |-> k, tex |-> Texture(shape)]]

\* ------------------------------------------------------------------ Frame
\* Frame::new: both buffers empty.
NewFrame == [shape_buffer |-> <<>>, text_buffer |-> <<>>]

\* A clear that forgets the text buffer.
clear_shapes_only(sb, tb) == [shape_buffer |-> <<>>, text_buffer |-> tb]

\* Frame::clear.
clear(sb, tb) == [shape_buffer |-> <<>>, text_buffer |-> <<>>]

\* Frame::add gives a Text without a font the font fonts[0].
ResolveFont(shape) ==
    IF shape.font = None THEN [shape EXCEPT !.font = DefaultFont] ELSE shape

\* An add that routes on the font being given instead of on the type: a Text
\* without a font lands in shape_buffer.
add_routes_on_font(sb, tb, shape, id) ==
    IF get_type(shape) = "Text" /\ shape.font # None
    THEN [shape_buffer |-> sb, text_buffer |-> tb \o get_vertices(shape, id),
          run |-> 2, shape |-> shape]
    ELSE LET given == IF get_type(shape) = "Text" THEN ResolveFont(shape) ELSE shape
         IN  [shape_buffer |-> sb \o get_vertices(given, id), text_buffer |-> tb,
              run |-> 1, shape |-> given]

\* An add that puts the new vertices in front of those the buffer holds.
add_in_front(sb, tb, shape, id) ==
    IF get_type(shape) = "Text"
    THEN LET text == ResolveFont(shape)
         IN  [shape_buffer |-> sb, text_buffer |-> get_vertices(text, id) \o tb,
              run |-> 2, shape |-> text]
    ELSE [shape_buffer |-> get_vertices(shape, id) \o sb, text_buffer |-> tb,
          run |-> 1, shape |-> shape]

\* Frame::add: a Text goes to text_buffer, everything else to shape_buffer.
\* run is the position in get_draw_data of the buffer extended, shape the
\* primitive as tessellated.
add(sb, tb, shape, id) ==
    IF get_type(shape) = "Text"
    THEN LET text == ResolveFont(shape)
         IN  [shape_buffer |-> sb, text_buffer |-> tb \o get_vertices(text, id),
              run |-> 2, shape |-> text]
    ELSE [shape_buffer |-> sb \o get_vertices(shape, id), text_buffer |-> tb,
          run |-> 1, shape |-> shape]

\* Whether Frame::add panics: fonts[0] is absent, or get_vertices panics.
AddPanics(shape, registered) ==
    get_type(shape) = "Text"
    /\ (   (shape.font = None /\ DefaultFont \notin registered)
        \/ Panics(ResolveFont(shape)))

\* Frame::add_circle: per segment three vertices if filled, a line if not,
\* all pushed to shape_buffer.
add_circle(sb, tb, circle, id) ==
    LET count == circle.detail * (IF circle.filled THEN WedgeVertices ELSE LineVertices)
    IN  [shape_buffer |-> sb \o [k \in 1..count |->
                                     [prim |-> id, n |-> k, tex |-> NoTexture]],
         text_buffer |-> tb]

\* Frame::get_draw_data: the runs, in drawing order.
get_draw_data(sb, tb) == <<sb, tb>>

\* ---------------------------------------------------------- Overlay::draw
\* What the backend answers for one run: the vertex buffer cannot be created
\* (draw unwraps it), the draw call fails (draw returns it with ?), or both
\* succeed.
Outcomes == {"ok", "buffer_error", "draw_error"}

\* The backend's answers for the runs of one draw: all succeed, or one run
\* fails (the answers for the runs after it are never asked for).
BackendAnswers ==
    {[i \in 1..2 |-> "ok"]}
    \cup {[i \in 1..2 |-> IF i = k THEN o ELSE "ok"] :
             k \in 1..2, o \in Outcomes \ {"ok"}}

\* buffer.texture of the run at position i: none for the shape buffer.
BufferTexture(i) == IF i = 1 THEN "None" ELSE "Some"

\* The program draw picks for a run.
Program(texture) == IF texture = "Some" THEN "texture_program" ELSE "shape_program"

\* The for loop of draw from run i on; done holds the draw calls issued.
RECURSIVE Submit(_, _, _, _)
Submit(runs, outcome, i, done) ==
    IF i > Len(runs) THEN [res |-> "Ok", val |-> 0, target |-> done]
    ELSE IF outcome[i] = "buffer_error" THEN [res |-> "panic", val |-> i, target |-> done]
    ELSE IF outcome[i] = "draw_error" THEN [res |-> "Err", val |-> i, target |-> done]
    ELSE Submit(runs, outcome, i + 1,
                Append(done, [program |-> Program(BufferTexture(i)), vertices |-> runs[i]]))

\* A draw that returns Ok without clearing the frame.
draw_without_clear(sb, tb, outcome) ==
    LET r == Submit(get_draw_data(sb, tb), outcome, 1, <<>>)
    IN  [res |-> r.res, val |-> r.val, target |-> r.target,
         shape_buffer |-> sb, text_buffer |-> tb]

\* A draw that clears the frame before it looks at the result of the draw
\* calls.
draw_clears_first(sb, tb, outcome) ==
    LET r == Submit(get_draw_data(sb, tb), outcome, 1, <<>>)
        after == clear(sb, tb)
    IN  [res |-> r.res, val |-> r.val, target |-> r.target,
         shape_buffer |-> after.shape_buffer, text_buffer |-> after.text_buffer]

\* Overlay::draw: submit every run, then clear the frame and return Ok; a
\* failed draw call returns before the clear.
draw(sb, tb, outcome) ==
    LET r == Submit(get_draw_data(sb, tb), outcome, 1, <<>>)
        after == IF r.res = "Ok" THEN clear(sb, tb)
                 ELSE [shape_buffer |-> sb, text_buffer |-> tb]
    IN  [res |-> r.res, val |-> r.val, target |-> r.target,
         shape_buffer |-> after.shape_buffer, text_buffer |-> after.text_buffer]

\* What the backend answers when draw_fxaa makes its off-screen target (the
\* colour texture, the depth buffer, the framebuffer: each is unwrapped) and
\* when it draws the FXAA pass onto the surface (returned with ?).
Resources == {"ok", "error"}
Passes == {"ok", "draw_error"}

\* Overlay::draw_fxaa: the frame is drawn into the off-screen target by
\* Overlay::draw, whose Result is dropped; then the FXAA pass is drawn onto
\* the surface. inner is what the draw inside returned.
draw_fxaa(sb, tb, resources, outcome, pass) ==
    IF resources = "error"
    THEN [res |-> "panic", val |-> 0, inner |-> "", target |-> <<>>,
          shape_buffer |-> sb, text_buffer |-> tb]
    ELSE LET r == draw(sb, tb, outcome)
         IN  IF r.res = "panic"
             THEN [res |-> "panic", val |-> r.val, inner |-> r.res,
                   target |-> r.target,
                   shape_buffer |-> r.shape_buffer, text_buffer |-> r.text_buffer]
             ELSE IF pass = "draw_error"
             THEN [res |-> "Err", val |-> 0, inner |-> r.res, target |-> r.target,
                   shape_buffer |-> r.shape_buffer, text_buffer |-> r.text_buffer]
             ELSE [res |-> "Ok", val |-> 0, inner |-> r.res,
                   target |-> Append(r.target, [program |-> "fxaa_program",
                                                vertices |-> <<>>]),
                   shape_buffer |-> r.shape_buffer, text_buffer |-> r.text_buffer]

\* -------------------------------------------------------------- FontAtlas
\* The codes whose glyphs differ from one font to another; every other code
\* of 0..127 loads as a bitmap of one pixel.
VariedCodes == {0, 65, 127}

\* What one FT_Load_Char leaves: whether it returned 0, and the bitmap
\* (width, rows) the glyph slot then holds. A load that fails leaves what
\* FreeType left in the slot, which the atlas reads all the same.
Loads ==
    [ok : BOOLEAN, width : 0..MaxBitmapWidth, rows : 0..MaxBitmapRows]

\* The font data FreeType can open: what each varied code loads as.
Faces == [VariedCodes -> Loads]

\* FT_Load_Char(face, i, FT_LOAD_RENDER).
FT_Load_Char(f, i) ==
    IF i \in DOMAIN f THEN f[i] ELSE [ok |-> TRUE, width |-> 1, rows |-> 1]

\* The first loop of FontAtlas::new over the codes lo..hi-1 (split in
\* halves, so that the evaluation stays shallow): what it adds to w, every
\* slot's width and one pixel more, and the h it reaches, the highest slot.
RECURSIVE Measure(_, _, _)
Measure(f, lo, hi) ==
    IF hi <= lo THEN [w |-> 0, h |-> 0]
    ELSE IF hi = lo + 1
    THEN LET bitmap == FT_Load_Char(f, lo)
         IN  [w |-> bitmap.width + 1, h |-> bitmap.rows]
    ELSE LET mid == (lo + hi) \div 2
             left == Measure(f, lo, mid)
             right == Measure(f, mid, hi)
         IN  [w |-> left.w + right.w, h |-> Max(left.h, right.h)]

\* A second loop that records the offset of a glyph after stepping over it.
RECURSIVE Pack_stepped(_, _, _, _, _)
Pack_stepped(f, lo, hi, x, w) ==
    IF hi <= lo THEN <<>>
    ELSE IF hi = lo + 1
    THEN LET bitmap == FT_Load_Char(f, lo)
         IN  <<[bitmap_width |-> bitmap.width, bitmap_height |-> bitmap.rows,
                texture_x |-> [num |-> x + bitmap.width + 1, den |-> w]]>>
    ELSE LET mid == (lo + hi) \div 2
         IN  Pack_stepped(f, lo, mid, x, w)
             \o Pack_stepped(f, mid, hi, x + Measure(f, lo, mid).w, w)

\* A second loop that steps over a slot's width and not over the pixel the
\* first loop left after it.
RECURSIVE Pack_tight(_, _, _, _, _)
Pack_tight(f, lo, hi, x, w) ==
    IF hi <= lo THEN <<>>
    ELSE IF hi = lo + 1
    THEN LET bitmap == FT_Load_Char(f, lo)
         IN  <<[bitmap_width |-> bitmap.width, bitmap_height |-> bitmap.rows,
                texture_x |-> [num |-> x, den |-> w]]>>
    ELSE LET mid == (lo + hi) \div 2
         IN  Pack_tight(f, lo, mid, x, w)
             \o Pack_tight(f, mid, hi, x + Measure(f, lo, mid).w - (mid - lo), w)

\* The second loop of FontAtlas::new over the codes lo..hi-1, x being the
\* running offset at lo: one Glyph pushed per code, loaded or not, with
\* texture_x the fraction x / w, and x stepped by the slot's width and one.
RECURSIVE Pack(_, _, _, _, _)
Pack(f, lo, hi, x, w) ==
    IF hi <= lo THEN <<>>
    ELSE IF hi = lo + 1
    THEN LET bitmap == FT_Load_Char(f, lo)
         IN  <<[bitmap_width |-> bitmap.width, bitmap_height |-> bitmap.rows,
                texture_x |-> [num |-> x, den |-> w]]>>
    ELSE LET mid == (lo + hi) \div 2
         IN  Pack(f, lo, mid, x, w)
             \o Pack(f, mid, hi, x + Measure(f, lo, mid).w, w)

\* FontAtlas::new on a face FreeType opened.
FontAtlas_new(f) ==
    LET size == Measure(f, 0, GlyphRange)
    IN  [built |-> TRUE, texture_dimensions |-> <<size.w, size.h>>,
         glyphs |-> Pack(f, 0, GlyphRange, 0, size.w)]

NoFace == [c \in VariedCodes |-> [ok |-> TRUE, width |-> 0, rows |-> 0]]
NoAtlas == [built |-> FALSE, texture_dimensions |-> <<0, 0>>, glyphs |-> <<>>]
NoGlyph == [bitmap_width |-> 0, bitmap_height |-> 0, texture_x |-> [num |-> 0, den |-> 1]]
NoLookup == [asked |-> FALSE, code |-> 0, res |-> "None", glyph |-> NoGlyph]

\* A get_glyph that reads the entry before the one of the code.
FontAtlas_get_glyph_before(a, c) ==
    IF c >= GlyphRange THEN [res |-> "None", glyph |-> NoGlyph]
    ELSE IF c \notin DOMAIN a.glyphs THEN [res |-> "panic", glyph |-> NoGlyph]
    ELSE [res |-> "Some", glyph |-> a.glyphs[c]]

\* FontAtlas::get_glyph on the atlas a: None from code 128 on, otherwise the
\* entry at index c of glyphs (position c + 1 of the sequence); indexing
\* past the end of glyphs panics.
FontAtlas_get_glyph(a, c) ==
    IF c >= GlyphRange THEN [res |-> "None", glyph |-> NoGlyph]
    ELSE IF c + 1 \notin DOMAIN a.glyphs THEN [res |-> "panic", glyph |-> NoGlyph]
    ELSE [res |-> "Some", glyph |-> a.glyphs[c + 1]]

\* ----------------------------------------------------- tessellation, in space
\* Coordinates are integers, and segments run along an axis: there f32
\* computes every step below exactly.
Coords == 0..MaxCoord
Points == Coords \X Coords

\* The square root of a perfect square.
Sqrt(n) == CHOOSE r \in 0..n : r * r = n

\* math::magnitude.
magnitude(point) == Sqrt(point[1] * point[1] + point[2] * point[2])

\* math::normalize.
normalize(point) ==
    LET m == magnitude(point)
    IN  <<point[1] \div m, point[2] \div m>>

\* A Vertex, without its color.
Vertex(position, tex_coords) == [position |-> position, tex_coords |-> tex_coords]

\* primitives::line::get_line.
get_line(start, end, thickness) ==
    LET delta == <<end[1] - start[1], end[2] - start[2]>>
        direction == normalize(delta)
        corner1 == <<-direction[2], direction[1]>>
        corner2 == <<direction[2], -direction[1]>>
        end_corner1 == <<end[1] + corner1[1] * thickness,
                         end[2] + corner1[2] * thickness>>
        end_corner2 == <<end[1] + corner2[1] * thickness,
                         end[2] + corner2[2] * thickness>>
        start_corner1 == <<start[1] + corner1[1] * thickness,
                           start[2] + corner1[2] * thickness>>
        start_corner2 == <<start[1] + corner2[1] * thickness,
                           start[2] + corner2[2] * thickness>>
    IN  <<Vertex(start_corner1, <<0, 0>>), Vertex(end_corner2, <<0, 0>>),
          Vertex(end_corner1, <<0, 0>>), Vertex(start_corner2, <<0, 0>>),
          Vertex(end_corner2, <<0, 0>>), Vertex(start_corner1, <<0, 0>>)>>

\* A rectangle tessellated as Frame::add_rect does: split along the other
\* diagonal, every texture coordinate zero.
Rectangle_get_vertices_plain(position, dimensions) ==
    LET right == position[1] + dimensions[1]
        bottom == position[2] + dimensions[2]
    IN  <<Vertex(position, <<0, 0>>),
          Vertex(<<right, position[2]>>, <<0, 0>>),
          Vertex(<<position[1], bottom>>, <<0, 0>>),
          Vertex(<<right, position[2]>>, <<0, 0>>),
          Vertex(<<right, bottom>>, <<0, 0>>),
          Vertex(<<position[1], bottom>>, <<0, 0>>)>>

\* Rectangle::get_vertices.
Rectangle_get_vertices(position, dimensions) ==
    <<Vertex(<<position[1], position[2]>>, <<0, 0>>),
      Vertex(<<position[1] + dimensions[1], position[2]>>, <<1, 0>>),
      Vertex(<<position[1] + dimensions[1], position[2] + dimensions[2]>>, <<1, 1>>),
      Vertex(<<position[1], position[2]>>, <<0, 0>>),
      Vertex(<<position[1], position[2] + dimensions[2]>>, <<0, 1>>),
      Vertex(<<position[1] + dimensions[1], position[2] + dimensions[2]>>, <<1, 1>>)>>

\* The primitives tessellated on their own: a Line along an axis, from start
\* to another point, and a Rectangle.
Line(start, end, thickness) ==
    [type |-> "Line", start |-> start, end |-> end, thickness |-> thickness,
     position |-> <<0, 0>>, dimensions |-> <<0, 0>>]

Rectangle(position, dimensions) ==
    [type |-> "Rectangle", start |-> <<0, 0>>, end |-> <<0, 0>>, thickness |-> 0,
     position |-> position, dimensions |-> dimensions]

NoPrimitive == [Line(<<0, 0>>, <<0, 0>>, 0) EXCEPT !.type = "None"]
NoVertices == <<>>

\* ------------------------------------------------ Circle::get_vertices
\* A primitives::Circle: its detail, whether it is filled, and whether a
\* border is set.
Circle(detail, filled, border) ==
    [type |-> "Circle", detail |-> detail, filled |-> filled, border |-> border]

\* The positions of a circle's vertices are kept by name: the point on the
\* circle at the angle 2 * PI * i / detail, the center, and the k-th of the
\* six vertices get_line returns for the segment from point i to point j.
PointAt(i) == [of |-> "point", i |-> i, j |-> i, k |-> 0]
Center == [of |-> "center", i |-> 0, j |-> 0, k |-> 0]
OutlineAt(i, j, k) == [of |-> "get_line", i |-> i, j |-> j, k |-> k]

\* The wedge pushed for segment i of a filled circle.
Wedge(i) ==
    <<Vertex(PointAt(i), <<0, 0>>), Vertex(PointAt(i + 1), <<0, 0>>),
      Vertex(Center, <<0, 0>>)>>

\* What get_line gives for segment i of a circle with a border.
OutlineSegment(i) ==
    [k \in 1..LineVertices |-> Vertex(OutlineAt(i, i + 1, k), <<0, 0>>)]

\* A circle whose outline is pushed only when it is not filled.
RECURSIVE Circle_get_vertices_either(_, _)
Circle_get_vertices_either(circle, i) ==
    IF i >= circle.detail THEN <<>>
    ELSE (IF circle.filled THEN Wedge(i)
          ELSE IF circle.border THEN OutlineSegment(i) ELSE <<>>)
         \o Circle_get_vertices_either(circle, i + 1)

\* Circle::get_vertices, the loop from segment i on: the wedge if the circle
\* is filled, then the outline segment if a border is set.
RECURSIVE Circle_get_vertices(_, _)
Circle_get_vertices(circle, i) ==
    IF i >= circle.detail THEN <<>>
    ELSE (IF circle.filled THEN Wedge(i) ELSE <<>>)
         \o (IF circle.border THEN OutlineSegment(i) ELSE <<>>)
         \o Circle_get_vertices(circle, i + 1)

\* ------------------------------------------------- Frame::add_rect, in space
\* The corners given to add_rect are counted in halves, and so is every
\* position it pushes.
Halves == 0..MaxCoord

\* f32::round of a coordinate in halves that is not negative: the nearest
\* whole number, a half going up. The result is in halves again.
Round(h) == 2 * ((h + 1) \div 2)

\* frame::Rectangle, without its color.
FrameRectangle(top_left, bottom_right, filled, thickness) ==
    [type |-> "FrameRectangle", top_left |-> top_left,
     bottom_right |-> bottom_right, filled |-> filled, thickness |-> thickness]

\* Frame::add_line: the thickness is halved (in halves, 2 * thickness comes
\* to thickness), then the six vertices of the strip are pushed.
add_line(start, end, thickness) ==
    LET half == (2 * thickness) \div 2
        delta == <<end[1] - start[1], end[2] - start[2]>>
        direction == normalize(delta)
        corner1 == <<-direction[2], direction[1]>>
        corner2 == <<direction[2], -direction[1]>>
        end_corner1 == <<end[1] + corner1[1] * half, end[2] + corner1[2] * half>>
        end_corner2 == <<end[1] + corner2[1] * half, end[2] + corner2[2] * half>>
        start_corner1 == <<start[1] + corner1[1] * half,
                           start[2] + corner1[2] * half>>
        start_corner2 == <<start[1] + corner2[1] * half,
                           start[2] + corner2[2] * half>>
    IN  <<Vertex(start_corner1, <<0, 0>>), Vertex(end_corner2, <<0, 0>>),
          Vertex(end_corner1, <<0, 0>>), Vertex(start_corner2, <<0, 0>>),
          Vertex(end_corner2, <<0, 0>>), Vertex(start_corner1, <<0, 0>>)>>

\* The two triangles add_rect pushes for a filled rectangle.
add_rect_filled(top_left, bottom_right) ==
    <<Vertex(top_left, <<0, 0>>),
      Vertex(<<bottom_right[1], top_left[2]>>, <<0, 0>>),
      Vertex(<<top_left[1], bottom_right[2]>>, <<0, 0>>),
      Vertex(<<bottom_right[1], top_left[2]>>, <<0, 0>>),
      Vertex(bottom_right, <<0, 0>>),
      Vertex(<<top_left[1], bottom_right[2]>>, <<0, 0>>)>>

\* An add_rect that fills whatever the flag says.
add_rect_always_filled(rectangle) ==
    add_rect_filled(<<Round(rectangle.top_left[1]), Round(rectangle.top_left[2])>>,
                    <<Round(rectangle.bottom_right[1]),
                      Round(rectangle.bottom_right[2])>>)

\* Frame::add_rect: what it pushes onto the shape buffer. The corners are
\* rounded; a filled rectangle is two triangles, any other the top, right,
\* bottom and left line.
add_rect(rectangle) ==
    LET top_left == <<Round(rectangle.top_left[1]), Round(rectangle.top_left[2])>>
        bottom_right == <<Round(rectangle.bottom_right[1]),
                          Round(rectangle.bottom_right[2])>>
        half == (2 * rectangle.thickness) \div 2
    IN  IF rectangle.filled
        THEN add_rect_filled(top_left, bottom_right)
        ELSE add_line(top_left, <<bottom_right[1], top_left[2]>>,
                      rectangle.thickness)
             \o add_line(<<bottom_right[1], top_left[2] - half>>,
                         <<bottom_right[1], bottom_right[2] + half>>,
                         rectangle.thickness)
             \o add_line(bottom_right, <<top_left[1], bottom_right[2]>>,
                         rectangle.thickness)
             \o add_line(<<top_left[1], bottom_right[2] + half>>,
                         <<top_left[1], top_left[2] - half>>,
                         rectangle.thickness)

\* ------------------------------------------------------- Text, in space
\* The sizes asked for: the default of Text, and twice it.
TextSizes == {12, 24}

\* Text positions are counted in units of 1/200, so that the ratio 0.69 and
\* an anchor offset of one half keep them whole.
Whole == 2 * 100

\* One metric unit of a glyph, scaled by the ratio, in units.
Scaled(metric) == metric * 2 * Ratio

\* The glyphs of the font the texts are set in: a blank, an A standing on
\* the baseline one pixel from the pen, and a g reaching one pixel below the
\* baseline.
TextFont ==
    (32 :> [bitmap_width |-> 0, bitmap_height |-> 0, bitmap_left |-> 0,
            bitmap_top |-> 0, advance_x |-> 2, advance_y |-> 0])
    @@ (65 :> [bitmap_width |-> 2, bitmap_height |-> 3, bitmap_left |-> 1,
               bitmap_top |-> 3, advance_x |-> 3, advance_y |-> 0])
    @@ (103 :> [bitmap_width |-> 2, bitmap_height |-> 4, bitmap_left |-> 0,
                bitmap_top |-> 3, advance_x |-> 3, advance_y |-> 0])

\* The strings set: every character has a glyph.
TextStrings == UNION {[1..n -> DOMAIN TextFont] : n \in 0..MaxGlyphs}

\* A Text with a font; offset is counted in halves (1 is 0.5).
Text(text, text_size, position, offset) ==
    [type |-> "Text", text |-> text, text_size |-> text_size,
     position |-> position, offset |-> offset]

\* The first loop of Text::get_vertices from character i on, the pen at
\* (x, y): the quad of every glyph that has pixels. tex_coords names the
\* glyph and the corner of its atlas cell.
RECURSIVE Emit(_, _, _, _)
Emit(text, i, x, y) ==
    IF i > Len(text.text) THEN <<>>
    ELSE LET c == text.text[i]
             glyph == TextFont[c]
             x2 == x + Scaled(glyph.bitmap_left)
             y2 == -y + Scaled(glyph.bitmap_top)
             w == Scaled(glyph.bitmap_width)
             h == Scaled(glyph.bitmap_height)
             rest == Emit(text, i + 1, x + Scaled(glyph.advance_x),
                          y + Scaled(glyph.advance_y))
         IN  IF w = 0 \/ h = 0 THEN rest
             ELSE <<Vertex(<<x2, -y2>>, <<c, 0, 0>>),
                    Vertex(<<x2 + w, -y2>>, <<c, 1, 0>>),
                    Vertex(<<x2, -y2 + h>>, <<c, 0, 1>>),
                    Vertex(<<x2 + w, -y2>>, <<c, 1, 0>>),
                    Vertex(<<x2, -y2 + h>>, <<c, 0, 1>>),
                    Vertex(<<x2 + w, -y2 + h>>, <<c, 1, 1>>)>> \o rest

\* The least and the greatest of the coordinates k of a buffer's vertices.
MinOf(buffer, k) ==
    CHOOSE m \in {buffer[i].position[k] : i \in 1..Len(buffer)} :
        \A i \in 1..Len(buffer) : m <= buffer[i].position[k]

MaxOf(buffer, k) ==
    CHOOSE m \in {buffer[i].position[k] : i \in 1..Len(buffer)} :
        \A i \in 1..Len(buffer) : m >= buffer[i].position[k]

\* The quads of a Text before the last loop of get_vertices moves them.
Unanchored(text) ==
    Emit(text, 1, text.position[1] * Whole, text.position[2] * Whole)

\* Text::get_vertices: the quads, then every vertex moved by
\* width * offset[0] to the left and by height * (offset[1] - 1) up. text_size
\* is not read.
Text_get_vertices(text) ==
    LET buffer == Unanchored(text)
    IN  IF buffer = <<>> THEN buffer
        ELSE LET width == MaxOf(buffer, 1) - MinOf(buffer, 1)
                 height == MaxOf(buffer, 2) - MinOf(buffer, 2)
             IN  [i \in 1..Len(buffer) |->
                    Vertex(<<buffer[i].position[1] - (width * text.offset[1]) \div 2,
                             buffer[i].position[2]
                                 - (height * (text.offset[2] - 2)) \div 2>>,
                           buffer[i].tex_coords)]

\* ------------------------------------------------------------ font loading
\* What the bytes handed to Font::new are, and what a path leads to.
FontData == {"valid", "corrupt"}
FontFiles == FontData \cup {"missing"}

\* What Font::new can come to. FT_New_Memory_Face leaves the face null on
\* bytes it rejects and its answer is not read; FontAtlas::new then reads
\* (*face).glyph, the read of a null pointer: the process is killed, or the
\* read yields something and an atlas is built from it.
FontNewOutcomes(data) ==
    IF data = "valid" THEN {"built"} ELSE {"killed", "built"}

\* Overlay::add_font_from_memory: registers what Font::new built under id.
\* It returns nothing.
add_font_from_memory(registry, id, outcome) ==
    IF outcome = "built"
    THEN [fonts |-> registry \cup {id}, res |-> "Ok", status |-> "running"]
    ELSE [fonts |-> registry, res |-> "killed", status |-> "killed"]

\* Overlay::add_font_from_file: unwraps the read of the file, then goes on as
\* add_font_from_memory.
add_font_from_file(registry, id, file, outcome) ==
    IF file = "missing"
    THEN [fonts |-> registry, res |-> "panic", status |-> "panicked"]
    ELSE add_font_from_memory(registry, id, outcome)

\* ---------------------------------------------------------- the font stack
\* Overlay::push_font: Vec::push.
push_font(stack, font) == Append(stack, font)

\* A pop that takes the oldest entry of the stack.
pop_font_oldest(stack) ==
    IF stack = <<>>
    THEN [res |-> "None", val |-> 0, font_stack |-> stack]
    ELSE [res |-> "Some", val |-> stack[1], font_stack |-> Tail(stack)]

\* Overlay::pop_font: Vec::pop, the last entry or None.
pop_font(stack) ==
    IF stack = <<>>
    THEN [res |-> "None", val |-> 0, font_stack |-> stack]
    ELSE [res |-> "Some", val |-> stack[Len(stack)],
          font_stack |-> SubSeq(stack, 1, Len(stack) - 1)]

\* A current_font that answers the first registered id it finds from the top
\* of the stack down.
RECURSIVE current_font_registered(_, _)
current_font_registered(registered, stack) ==
    IF stack = <<>> THEN [res |-> "None", val |-> 0]
    ELSE IF stack[Len(stack)] \in registered
    THEN [res |-> "Some", val |-> stack[Len(stack)]]
    ELSE current_font_registered(registered, SubSeq(stack, 1, Len(stack) - 1))

\* Overlay::current_font: fonts.get(font_stack.last()?), the font registered
\* under the top id, None for an empty stack or an id never registered.
current_font(registered, stack) ==
    IF stack = <<>> THEN [res |-> "None", val |-> 0]
    ELSE IF stack[Len(stack)] \in registered
    THEN [res |-> "Some", val |-> stack[Len(stack)]]
    ELSE [res |-> "None", val |-> 0]

\* ------------------------------------------------------------------ state
\* What the last operation was, what it returned (res, val) and what it was
\* given (arg).
Result(op, res, val, arg) == [op |-> op, res |-> res, val |-> val, arg |-> arg]

\* Overlay::initialize registers font 0 and pushes it.
Init ==
    /\ fonts = {DefaultFont}
    /\ font_stack = <<DefaultFont>>
    /\ alive = FALSE
    /\ shape_buffer = <<>>
    /\ text_buffer = <<>>
    /\ emissions = <<>>
    /\ target = <<>>
    /\ last = Result("initialize", "Ok", 0, "")
    /\ status = "running"
    /\ face = NoFace
    /\ atlas = NoAtlas
    /\ lookup = NoLookup
    /\ primitive = NoPrimitive
    /\ vertices = NoVertices
    /\ LIBRARY = 0
    /\ instances = 0
    /\ pc = [t \in Callers |-> "idle"]
    /\ library = [t \in Callers |-> 0]

\* Overlay::add_font_from_memory with font data FreeType accepts.
AddFont ==
    /\ status = "running" /\ ~alive
    /\ \E id \in FontIds :
        /\ fonts' = fonts \cup {id}
        /\ last' = Result("add_font_from_memory", "Ok", id, "valid")
    /\ target' = <<>>
    /\ UNCHANGED <<font_stack, alive, shape_buffer, text_buffer, emissions, status>>
    /\ UNCHANGED <<font_vars, tess_vars, engine_vars>>

\* Overlay::push_font.
PushFont ==
    /\ status = "running" /\ ~alive
    /\ Len(font_stack) < MaxStack
    /\ \E font \in FontIds :
        /\ font_stack' = push_font(font_stack, font)
        /\ last' = Result("push_font", "Ok", font, "")
    /\ target' = <<>>
    /\ UNCHANGED <<fonts, alive, shape_buffer, text_buffer, emissions, status>>
    /\ UNCHANGED <<font_vars, tess_vars, engine_vars>>

\* Overlay::pop_font.
PopFont ==
    /\ status = "running" /\ ~alive
    /\ LET r == pop_font(font_stack)
       IN  /\ font_stack' = r.font_stack
           /\ last' = Result("pop_font", r.res, r.val, "")
    /\ target' = <<>>
    /\ UNCHANGED <<fonts, alive, shape_buffer, text_buffer, emissions, status>>
    /\ UNCHANGED <<font_vars, tess_vars, engine_vars>>

\* Overlay::current_font; it borrows the Overlay immutably, so it can be
\* called while a Frame is alive.
CurrentFont ==
    /\ status = "running"
    /\ LET r == current_font(fonts, font_stack)
       IN  last' = Result("current_font", r.res, r.val, "")
    /\ target' = <<>>
    /\ UNCHANGED <<fonts, font_stack, alive, shape_buffer, text_buffer, emissions,
                   status>>
    /\ UNCHANGED <<font_vars, tess_vars, engine_vars>>

\* Overlay::new_frame.
NewFrameStep ==
    /\ status = "running" /\ ~alive
    /\ alive' = TRUE
    /\ shape_buffer' = NewFrame.shape_buffer
    /\ text_buffer' = NewFrame.text_buffer
    /\ emissions' = <<>>
    /\ target' = <<>>
    /\ last' = Result("new_frame", "Ok", 0, "")
    /\ UNCHANGED <<fonts, font_stack, status>>
    /\ UNCHANGED <<font_vars, tess_vars, engine_vars>>

\* The Frame goes out of scope.
DropFrame ==
    /\ status = "running" /\ alive
    /\ alive' = FALSE
    /\ shape_buffer' = <<>>
    /\ text_buffer' = <<>>
    /\ emissions' = <<>>
    /\ target' = <<>>
    /\ last' = Result("drop", "Ok", 0, "")
    /\ UNCHANGED <<fonts, font_stack, status>>
    /\ UNCHANGED <<font_vars, tess_vars, engine_vars>>

\* What kind of primitive an add was given.
Given(shape) ==
    CASE shape.type = "Circle" /\ shape.detail = 0 -> "circle_detail_0"
      [] shape.type # "Text" -> "shape"
      [] shape.font = None -> "text_default"
      [] OTHER -> "text_font"

\* How many characters of a primitive's text have no glyph.
MissingGlyphs(shape) ==
    Cardinality({i \in 1..Len(shape.text) : get_glyph(shape.text[i]) = None})

\* Frame::add of one primitive. last.val tells how many characters without
\* a glyph it was given.
AddShape(shape) ==
    /\ status = "running" /\ alive
    /\ IF AddPanics(shape, fonts)
       THEN /\ status' = "panicked"
            /\ last' = Result("add", "panic", MissingGlyphs(shape), Given(shape))
            /\ shape_buffer' = <<>>
            /\ text_buffer' = <<>>
            /\ emissions' = <<>>
            /\ alive' = FALSE
       ELSE LET r == add(shape_buffer, text_buffer, shape, Len(emissions) + 1)
            IN  /\ shape_buffer' = r.shape_buffer
                /\ text_buffer' = r.text_buffer
                /\ emissions' = Append(emissions,
                       [text |-> shape.type = "Text", tex |-> Texture(r.shape),
                        run |-> r.run])
                /\ last' = Result("add", "Ok", MissingGlyphs(shape), Given(shape))
                /\ UNCHANGED <<status, alive>>
    /\ target' = <<>>
    /\ UNCHANGED <<fonts, font_stack>>
    /\ UNCHANGED <<font_vars, tess_vars, engine_vars>>

\* Frame::add, of any primitive.
Add ==
    /\ Len(emissions) < MaxAdds
    /\ \E shape \in Shapes(fonts) : AddShape(shape)

\* Frame::add_circle.
AddCircle ==
    /\ status = "running" /\ alive
    /\ Len(emissions) < MaxAdds
    /\ \E d \in 0..MaxDetail, f \in BOOLEAN :
        LET circle == CircleShape(d, f, ~f)
            r == add_circle(shape_buffer, text_buffer, circle, Len(emissions) + 1)
        IN  /\ shape_buffer' = r.shape_buffer
            /\ text_buffer' = r.text_buffer
            /\ last' = Result("add_circle", "Ok", 0, Given(circle))
    /\ emissions' = Append(emissions, [text |-> FALSE, tex |-> NoTexture, run |-> 1])
    /\ target' = <<>>
    /\ UNCHANGED <<fonts, font_stack, alive, status>>
    /\ UNCHANGED <<font_vars, tess_vars, engine_vars>>

\* Whether the textures of the emissions es alternate between two textures.
Alternating(es) ==
    /\ Len(es) >= 2 => es[1].tex # es[2].tex
    /\ \A j \in 3..Len(es) : es[j].tex = es[j - 2].tex

\* Frame::add, of a primitive whose texture continues an alternation.
AddAlternating ==
    /\ Len(emissions) < 2 * MaxAlternations
    /\ \E shape \in Shapes(fonts) :
        /\ ~AddPanics(shape, fonts)
        /\ Alternating(Append(emissions,
               [text |-> shape.type = "Text", tex |-> Texture(ResolveFont(shape)),
                run |-> 0]))
        /\ AddShape(shape)

\* Frame::clear.
Clear ==
    /\ status = "running" /\ alive
    /\ LET r == clear(shape_buffer, text_buffer)
       IN  /\ shape_buffer' = r.shape_buffer
           /\ text_buffer' = r.text_buffer
    /\ emissions' = <<>>
    /\ target' = <<>>
    /\ last' = Result("clear", "Ok", Len(shape_buffer) + Len(text_buffer), "")
    /\ UNCHANGED <<fonts, font_stack, alive, status>>
    /\ UNCHANGED <<font_vars, tess_vars, engine_vars>>

\* Overlay::draw on the frame. A panic unwinds the caller, which drops the
\* frame.
Draw ==
    /\ status = "running" /\ alive
    /\ \E outcome \in BackendAnswers :
        LET r == draw(shape_buffer, text_buffer, outcome)
        IN  /\ target' = r.target
            /\ last' = Result("draw", r.res, r.val, "")
            /\ IF r.res = "panic"
               THEN /\ status' = "panicked"
                    /\ alive' = FALSE
                    /\ shape_buffer' = <<>>
                    /\ text_buffer' = <<>>
                    /\ emissions' = <<>>
               ELSE /\ shape_buffer' = r.shape_buffer
                    /\ text_buffer' = r.text_buffer
                    /\ emissions' = IF r.res = "Ok" THEN <<>> ELSE emissions
                    /\ UNCHANGED <<status, alive>>
    /\ UNCHANGED <<fonts, font_stack>>
    /\ UNCHANGED <<font_vars, tess_vars, engine_vars>>

\* Font::new: FontAtlas::new on font data FreeType opens. The atlas followed
\* is built once.
FontNew ==
    /\ ~atlas.built
    /\ \E f \in Faces :
        /\ face' = f
        /\ atlas' = FontAtlas_new(f)
    /\ lookup' = NoLookup
    /\ UNCHANGED <<overlay_vars, tess_vars, engine_vars>>

\* The codes asked for: the varied ones, and two past the glyph table.
LookupCodes == VariedCodes \cup {1, GlyphRange, 200}

\* Font::get_glyph on the atlas built.
GetGlyph ==
    /\ atlas.built
    /\ \E c \in LookupCodes :
        LET r == FontAtlas_get_glyph(atlas, c)
        IN  lookup' = [asked |-> TRUE, code |-> c, res |-> r.res, glyph |-> r.glyph]
    /\ UNCHANGED <<face, atlas>>
    /\ UNCHANGED <<overlay_vars, tess_vars, engine_vars>>

\* Line::get_vertices, of a Line along an axis with start # end.
LineGetVertices ==
    /\ primitive.type = "None"
    /\ \E start \in Points, end \in Points, thickness \in 1..MaxThickness :
        /\ start # end
        /\ start[1] = end[1] \/ start[2] = end[2]
        /\ primitive' = Line(start, end, thickness)
        /\ vertices' = get_line(start, end, thickness)
    /\ UNCHANGED <<overlay_vars, font_vars, engine_vars>>

\* Rectangle::get_vertices.
RectangleGetVertices ==
    /\ primitive.type = "None"
    /\ \E position \in Points, dimensions \in Points :
        /\ primitive' = Rectangle(position, dimensions)
        /\ vertices' = Rectangle_get_vertices(position, dimensions)
    /\ UNCHANGED <<overlay_vars, font_vars, engine_vars>>

\* Text::get_vertices, of a Text with a font whose characters all have a
\* glyph, at a corner of the coordinate range.
TextGetVertices ==
    /\ primitive.type = "None"
    /\ \E text \in TextStrings, text_size \in TextSizes,
          position \in {0, MaxCoord} \X {0, MaxCoord}, offset \in (0..2) \X (0..2) :
        /\ primitive' = Text(text, text_size, position, offset)
        /\ vertices' = Text_get_vertices(primitive')
    /\ UNCHANGED <<overlay_vars, font_vars, engine_vars>>

\* Overlay::add_font_from_memory with any bytes.
AddFontFromMemory ==
    /\ status = "running" /\ ~alive
    /\ \E id \in FontIds, data \in FontData :
       \E outcome \in FontNewOutcomes(data) :
        LET r == add_font_from_memory(fonts, id, outcome)
        IN  /\ fonts' = r.fonts
            /\ status' = r.status
            /\ last' = Result("add_font_from_memory", r.res, id, data)
    /\ target' = <<>>
    /\ UNCHANGED <<font_stack, alive, shape_buffer, text_buffer, emissions>>
    /\ UNCHANGED <<font_vars, tess_vars, engine_vars>>

\* Overlay::add_font_from_file with any path.
AddFontFromFile ==
    /\ status = "running" /\ ~alive
    /\ \E id \in FontIds, file \in FontFiles :
       \E outcome \in FontNewOutcomes(file) :
        LET r == add_font_from_file(fonts, id, file, outcome)
        IN  /\ fonts' = r.fonts
            /\ status' = r.status
            /\ last' = Result("add_font_from_file", r.res, id, file)
    /\ target' = <<>>
    /\ UNCHANGED <<font_stack, alive, shape_buffer, text_buffer, emissions>>
    /\ UNCHANGED <<font_vars, tess_vars, engine_vars>>

\* A caller enters FontAtlas::new.
EnterFontAtlasNew(t) ==
    /\ pc[t] = "idle"
    /\ pc' = [pc EXCEPT ![t] = "is_none"]
    /\ UNCHANGED <<LIBRARY, instances, library>>
    /\ UNCHANGED <<overlay_vars, font_vars, tess_vars>>

\* `if LIBRARY.is_none()`: the read of the static, behind no lock.
IsNone(t) ==
    /\ pc[t] = "is_none"
    /\ pc' = [pc EXCEPT ![t] = IF LIBRARY = 0 THEN "FT_Init_FreeType"
                                              ELSE "unwrap"]
    /\ UNCHANGED <<LIBRARY, instances, library>>
    /\ UNCHANGED <<overlay_vars, font_vars, tess_vars>>

\* `FT_Init_FreeType(&mut library)`: one more instance of the engine.
InitFreeType(t) ==
    /\ pc[t] = "FT_Init_FreeType"
    /\ instances' = instances + 1
    /\ library' = [library EXCEPT ![t] = instances + 1]
    /\ pc' = [pc EXCEPT ![t] = "store"]
    /\ UNCHANGED LIBRARY
    /\ UNCHANGED <<overlay_vars, font_vars, tess_vars>>

\* `LIBRARY = Some(library)`.
StoreLibrary(t) ==
    /\ pc[t] = "store"
    /\ LIBRARY' = library[t]
    /\ pc' = [pc EXCEPT ![t] = "unwrap"]
    /\ UNCHANGED <<instances, library>>
    /\ UNCHANGED <<overlay_vars, font_vars, tess_vars>>

\* `let library = LIBRARY.unwrap()`.
UnwrapLibrary(t) ==
    /\ pc[t] = "unwrap"
    /\ library' = [library EXCEPT ![t] = LIBRARY]
    /\ pc' = [pc EXCEPT ![t] = "build"]
    /\ UNCHANGED <<LIBRARY, instances>>
    /\ UNCHANGED <<overlay_vars, font_vars, tess_vars>>

\* The rest of FontAtlas::new, with the engine in `library`; the engine is
\* left as it is.
BuildAtlas(t) ==
    /\ pc[t] = "build"
    /\ pc' = [pc EXCEPT ![t] = "idle"]
    /\ UNCHANGED <<LIBRARY, instances, library>>
    /\ UNCHANGED <<overlay_vars, font_vars, tess_vars>>

\* Overlay::draw_fxaa on the frame. last.arg is what the draw inside
\* returned. A panic unwinds the caller, which drops the frame.
DrawFxaa ==
    /\ status = "running" /\ alive
    /\ \E resources \in Resources, outcome \in BackendAnswers, pass \in Passes :
        LET r == draw_fxaa(shape_buffer, text_buffer, resources, outcome, pass)
        IN  /\ target' = r.target
            /\ last' = Result("draw_fxaa", r.res, r.val, r.inner)
            /\ IF r.res = "panic"
               THEN /\ status' = "panicked"
                    /\ alive' = FALSE
                    /\ shape_buffer' = <<>>
                    /\ text_buffer' = <<>>
                    /\ emissions' = <<>>
               ELSE /\ shape_buffer' = r.shape_buffer
                    /\ text_buffer' = r.text_buffer
                    /\ emissions' = IF r.inner = "Ok" THEN <<>> ELSE emissions
                    /\ UNCHANGED <<status, alive>>
    /\ UNCHANGED <<fonts, font_stack>>
    /\ UNCHANGED <<font_vars, tess_vars, engine_vars>>

\* Frame::add_rect on an empty frame, of a rectangle whose rounded corners
\* span a box (top_left above and to the left of bottom_right). vertices is
\* the shape buffer after it.
AddRect ==
    /\ primitive.type = "None"
    /\ \E top_left \in Halves \X Halves, bottom_right \in Halves \X Halves,
          filled \in BOOLEAN, thickness \in 1..MaxThickness :
        /\ Round(top_left[1]) < Round(bottom_right[1])
        /\ Round(top_left[2]) < Round(bottom_right[2])
        /\ primitive' = FrameRectangle(top_left, bottom_right, filled, thickness)
        /\ vertices' = add_rect(primitive')
    /\ UNCHANGED <<overlay_vars, font_vars, engine_vars>>

\* Circle::get_vertices.
CircleGetVertices ==
    /\ primitive.type = "None"
    /\ \E detail \in 0..MaxSegments, filled \in BOOLEAN, border \in BOOLEAN :
        /\ primitive' = Circle(detail, filled, border)
        /\ vertices' = Circle_get_vertices(primitive', 0)
    /\ UNCHANGED <<overlay_vars, font_vars, engine_vars>>

Next ==
    \/ AddFont
    \/ PushFont
    \/ PopFont
    \/ CurrentFont
    \/ NewFrameStep
    \/ DropFrame
    \/ Add
    \/ Clear
    \/ Draw

\* The Overlay's font API and the Frame's add, clear and draw.
Spec == Init /\ [][Next]_vars

\* The batcher: the operations on a frame, which never read the font stack.
NextBatch ==
    \/ AddFont
    \/ NewFrameStep
    \/ DropFrame
    \/ Add
    \/ Clear
    \/ Draw

SpecBatch == Init /\ [][NextBatch]_vars

\* Adds to a new frame whose textures alternate between two textures.
NextAlternate ==
    \/ AddFont
    \/ NewFrameStep
    \/ AddAlternating

SpecAlternate == Init /\ [][NextAlternate]_vars

\* The font registry and the font stack.
NextFonts ==
    \/ AddFont
    \/ PushFont
    \/ PopFont
    \/ CurrentFont
    \/ NewFrameStep
    \/ DropFrame

SpecFonts == Init /\ [][NextFonts]_vars

\* Building a font atlas and looking glyphs up in it.
NextAtlas ==
    \/ FontNew
    \/ GetGlyph

SpecAtlas == Init /\ [][NextAtlas]_vars

\* One primitive tessellated on its own.
NextTessellate ==
    \/ LineGetVertices
    \/ RectangleGetVertices
    \/ CircleGetVertices

SpecTessellate == Init /\ [][NextTessellate]_vars

\* Circles and the other primitives added to a frame.
NextCircle ==
    \/ NewFrameStep
    \/ DropFrame
    \/ Add
    \/ AddCircle
    \/ Clear

SpecCircle == Init /\ [][NextCircle]_vars

\* One Text tessellated on its own.
NextText ==
    \/ TextGetVertices

SpecText == Init /\ [][NextText]_vars

\* Loading fonts from any bytes and any path, and the font stack.
NextLoad ==
    \/ AddFontFromMemory
    \/ AddFontFromFile
    \/ PushFont
    \/ PopFont
    \/ NewFrameStep
    \/ DropFrame

SpecLoad == Init /\ [][NextLoad]_vars

\* Callers building font atlases at the same time.
NextEngine ==
    \/ \E t \in Callers : EnterFontAtlasNew(t)
    \/ \E t \in Callers : IsNone(t)
    \/ \E t \in Callers : InitFreeType(t)
    \/ \E t \in Callers : StoreLibrary(t)
    \/ \E t \in Callers : UnwrapLibrary(t)
    \/ \E t \in Callers : BuildAtlas(t)

SpecEngine == Init /\ [][NextEngine]_vars

\* Frames drawn through the FXAA pass.
NextFxaa ==
    \/ NewFrameStep
    \/ DropFrame
    \/ Add
    \/ DrawFxaa

SpecFxaa == Init /\ [][NextFxaa]_vars

\* One rectangle added to a frame by add_rect.
NextRect ==
    \/ AddRect

SpecRect == Init /\ [][NextRect]_vars

\* ------------------------------------------------------------------ claims
\* The runs the frame exposes for drawing.
Runs == get_draw_data(shape_buffer, text_buffer)

\* The textures of the primitives whose vertices a run holds.
RunTextures(run) == {run[i].tex : i \in 1..Len(run)}

\* The vertices of the draw calls issued, in the order drawn.
RECURSIVE Drawn(_)
Drawn(calls) ==
    IF calls = <<>> THEN <<>> ELSE calls[1].vertices \o Drawn(Tail(calls))

\* C1: no two consecutive runs of the frame hold vertices of the same
\* texture, and two adds in a row with the same texture extend the same run.
C1_BatchingInvariant ==
    /\ \A i \in 1..(Len(Runs) - 1) :
          RunTextures(Runs[i]) \cap RunTextures(Runs[i + 1]) = {}
    /\ \A j \in 1..(Len(emissions) - 1) :
          emissions[j].tex = emissions[j + 1].tex => emissions[j].run = emissions[j + 1].run

\* C1 witness: two adds in a row with the same texture have extended one
\* run, or both runs hold vertices.
C1_Witness ==
    /\ alive /\ Len(emissions) = MaxAdds
    /\ \/ shape_buffer # <<>> /\ text_buffer # <<>>
       \/ /\ emissions[1].tex = emissions[2].tex
          /\ Len(Runs[emissions[1].run]) > GlyphVertices

\* C2: every vertex of a run comes from a primitive with one and the same
\* texture, the run's.
C2_RunHasOneTexture ==
    \A i \in 1..Len(Runs) : Cardinality(RunTextures(Runs[i])) <= 1

\* C3: after N >= 1 adds of Text primitives of one font to an empty frame,
\* the frame holds exactly one run.
C3_SameFontTextOneRun ==
    (/\ alive /\ emissions # <<>>
     /\ \A j \in 1..Len(emissions) :
           emissions[j].text /\ emissions[j].tex = emissions[1].tex)
    => Len(Runs) = 1

\* C4: after k alternations between two textures on an empty frame, the
\* frame holds exactly 2k runs.
C4_AlternationRuns ==
    \A k \in 1..MaxAlternations :
        (alive /\ Len(emissions) = 2 * k /\ Alternating(emissions)) => Len(Runs) = 2 * k

\* C5: a draw submits the vertices in the order their primitives were added.
C5_DrawnInAddOrder ==
    last.op = "draw" =>
        LET d == Drawn(target)
        IN  \A p \in 1..Len(d) : \A q \in p..Len(d) : d[p].prim <= d[q].prim

\* C6: a Text added without a font is tessellated with the font on top of
\* the font stack.
C6_DefaultFontIsStackTop ==
    (/\ last.op = "add" /\ last.arg = "text_default" /\ last.res = "Ok"
     /\ font_stack # <<>>)
    => \A i \in 1..Len(Runs) : \A k \in 1..Len(Runs[i]) :
          Runs[i][k].prim = Len(emissions) =>
              Runs[i][k].tex = FontTexture(font_stack[Len(font_stack)])

\* C7: adding a Text without a font while the font stack is empty returns an
\* error.
C7_EmptyStackIsError ==
    (/\ last.op = "add" /\ last.arg = "text_default" /\ font_stack = <<>>
     /\ last.res # "panic")
    => last.res = "Err"

\* C8: a clear leaves every run empty, and the add after a clear leaves the
\* frame as the same add leaves a new frame.
C8_ClearEmptiesRuns ==
    [][/\ last'.op = "clear" =>
            \A i \in 1..Len(Runs') : Runs'[i] = <<>>
       /\ (last.op = "clear" /\ last'.op = "add" /\ last'.res = "Ok") =>
            \E shape \in Shapes(fonts) :
                LET r == add(NewFrame.shape_buffer, NewFrame.text_buffer, shape, 1)
                IN  Runs' = get_draw_data(r.shape_buffer, r.text_buffer)]_vars

\* C8 witness: a frame that held vertices has been cleared.
C8_Witness ==
    last.op = "clear" /\ last.val > 0 /\ shape_buffer = <<>> /\ text_buffer = <<>>

\* C9: when draw returns Ok the frame holds no vertex, and a draw that
\* follows it at once draws none.
C9_DrawOkClears ==
    [][/\ (last'.op = "draw" /\ last'.res = "Ok") =>
            \A i \in 1..Len(Runs') : Runs'[i] = <<>>
       /\ (last.op = "draw" /\ last.res = "Ok" /\ last'.op = "draw") =>
            Drawn(target') = <<>>]_vars

\* C9 witness: a draw of vertices returned Ok.
C9_Witness ==
    /\ last.op = "draw" /\ last.res = "Ok" /\ Len(Drawn(target)) > 0
    /\ shape_buffer = <<>> /\ text_buffer = <<>>

C11_FontStackLifo ==
    [][/\ last'.op = "push_font" =>
            /\ Len(font_stack') = Len(font_stack) + 1
            /\ font_stack'[Len(font_stack')] = last'.val
            /\ SubSeq(font_stack', 1, Len(font_stack)) = font_stack
            /\ LET back == pop_font(font_stack')
               IN  back.res = "Some" /\ back.val = last'.val
                   /\ back.font_stack = font_stack
       /\ (last'.op = "pop_font" /\ font_stack # <<>>) =>
            /\ last'.res = "Some"
            /\ last'.val = font_stack[Len(font_stack)]
            /\ font_stack = Append(font_stack', last'.val)
       /\ (last'.op = "pop_font" /\ font_stack = <<>>) =>
            last'.res = "None" /\ font_stack' = <<>>
       /\ (last.op = "push_font" /\ last'.op = "pop_font") =>
            last'.res = "Some" /\ last'.val = last.val]_vars

\* C11 witness: a pop from a stack of two different ids returned the upper
\* one and left the lower one.
C11_Witness ==
    /\ last.op = "pop_font" /\ last.res = "Some"
    /\ Len(font_stack) = 1 /\ font_stack[1] # last.val

\* C12: current_font returns the font registered under the id on top of the
\* font stack, and None when the stack is empty; it never returns the font of
\* an id below the top.
C12_CurrentFontIsTop ==
    last.op = "current_font" =>
        /\ font_stack = <<>> => last.res = "None"
        /\ (font_stack # <<>> /\ font_stack[Len(font_stack)] \in fonts) =>
              last.res = "Some" /\ last.val = font_stack[Len(font_stack)]
        /\ last.res = "Some" =>
              font_stack # <<>> /\ last.val = font_stack[Len(font_stack)]
                                /\ last.val \in fonts

\* C12 witness: current_font answered the top of a stack that holds another
\* registered id below it.
C12_Witness ==
    /\ last.op = "current_font" /\ last.res = "Some"
    /\ Len(font_stack) = 2 /\ font_stack[1] # font_stack[2]
    /\ font_stack[1] \in fonts /\ last.val = font_stack[2]

\* What the atlas measures if only the codes lo..hi-1 that rasterized count.
RECURSIVE RasterizedSize(_, _, _)
RasterizedSize(f, lo, hi) ==
    IF hi <= lo THEN [w |-> 0, h |-> 0]
    ELSE IF hi = lo + 1
    THEN LET bitmap == FT_Load_Char(f, lo)
         IN  IF bitmap.ok THEN [w |-> bitmap.width + 1, h |-> bitmap.rows]
             ELSE [w |-> 0, h |-> 0]
    ELSE LET mid == (lo + hi) \div 2
             left == RasterizedSize(f, lo, mid)
             right == RasterizedSize(f, mid, hi)
         IN  [w |-> left.w + right.w, h |-> Max(left.h, right.h)]

\* The codes of the glyph table whose load failed.
FailedCodes == {i \in 0..(GlyphRange - 1) : ~FT_Load_Char(face, i).ok}

\* C13: the atlas is as wide as the sum of (w_i + 1) over the glyphs that
\* rasterized, and as high as the highest of them.
C13_AtlasPacking ==
    atlas.built =>
        LET size == RasterizedSize(face, 0, GlyphRange)
        IN  atlas.texture_dimensions = <<size.w, size.h>>

\* C14: the normalized offset of every glyph lies in [0, 1), and the offsets
\* never decrease from one code to the next.
C14_OffsetsMonotone ==
    atlas.built =>
        \A i \in 1..GlyphRange :
            LET tx == atlas.glyphs[i].texture_x
            IN  /\ tx.den > 0 /\ 0 <= tx.num /\ tx.num < tx.den
                /\ i < GlyphRange =>
                      LET next == atlas.glyphs[i + 1].texture_x
                      IN  tx.num * next.den <= next.num * tx.den

\* C14 witness: an atlas whose first and last glyphs have pixels, the last
\* one lying further right than in an atlas of one-pixel slots.
C14_Witness ==
    /\ atlas.built
    /\ atlas.glyphs[1].bitmap_width > 0
    /\ atlas.glyphs[GlyphRange].bitmap_width > 0
    /\ atlas.glyphs[GlyphRange].texture_x.num > atlas.glyphs[2].texture_x.num

\* C15: a glyph whose load failed adds nothing to the width of the atlas
\* (the next glyph starts where it starts, the atlas ends there if it is the
\* last), and get_glyph for its code returns no glyph.
C15_FailedGlyphSkipped ==
    atlas.built =>
        \A i \in FailedCodes :
            /\ atlas.glyphs[i + 1].texture_x.num
                 = IF i + 1 < GlyphRange THEN atlas.glyphs[i + 2].texture_x.num
                   ELSE atlas.texture_dimensions[1]
            /\ (lookup.asked /\ lookup.code = i) => lookup.res = "None"

\* C16: get_glyph returns None for a code from 128 on and never panics, and
\* for a code below 128 it returns the metrics recorded for that code.
C16_GetGlyphByCode ==
    lookup.asked =>
        /\ lookup.res # "panic"
        /\ lookup.code >= GlyphRange => lookup.res = "None"
        /\ lookup.code < GlyphRange =>
              LET bitmap == FT_Load_Char(face, lookup.code)
              IN  /\ lookup.res = "Some"
                  /\ lookup.glyph.bitmap_width = bitmap.width
                  /\ lookup.glyph.bitmap_height = bitmap.rows
                  /\ lookup.glyph.texture_x
                       = [num |-> Measure(face, 0, lookup.code).w,
                          den |-> atlas.texture_dimensions[1]]

\* C16 witness: a lookup of a code of the table returned its glyph, which is
\* not the glyph of the code before it.
C16_Witness ==
    /\ lookup.asked /\ lookup.res = "Some" /\ lookup.code > 0
    /\ lookup.glyph.bitmap_width # atlas.glyphs[lookup.code].bitmap_width

\* C17: an add of a Text holding a character without a glyph does not
\* panic: the character is skipped and the add returns.
C17_MissingGlyphSkipped ==
    (last.op = "add" /\ last.val > 0) => last.res = "Ok"

\* Whether the two triangles of six points are two halves of the rectangle
\* with the corners a, b, c, d (in order around it): they share a diagonal and
\* reach all four corners.
TwoTrianglesCover(points, a, b, c, d) ==
    /\ Len(points) = 6
    /\ LET first == {points[1], points[2], points[3]}
           second == {points[4], points[5], points[6]}
       IN  /\ first \cup second = {a, b, c, d}
           /\ {a, c} \subseteq first \cap second \/ {b, d} \subseteq first \cap second

\* C18: a Line with start # end and thickness t gives 6 vertices, two
\* triangles that together are the rectangle along the segment reaching t/2
\* to each side of it (compared at twice the size, so that t/2 is whole).
C18_LineHalfThickness ==
    primitive.type = "Line" =>
        LET direction == normalize(<<primitive.end[1] - primitive.start[1],
                                     primitive.end[2] - primitive.start[2]>>)
            t == primitive.thickness
            side(point, sign) ==
                <<2 * point[1] - sign * direction[2] * t,
                  2 * point[2] + sign * direction[1] * t>>
            twice == [i \in 1..Len(vertices) |->
                         <<2 * vertices[i].position[1], 2 * vertices[i].position[2]>>]
        IN  TwoTrianglesCover(twice, side(primitive.start, 1), side(primitive.end, 1),
                              side(primitive.end, -1), side(primitive.start, -1))

\* C19: a Rectangle with top-left p and bottom-right q gives 6 vertices, two
\* triangles that together are the box; the least and greatest vertex
\* coordinates are those of p and q; and the texture coordinates are (0,0)
\* at p and (1,1) at q, each vertex having the coordinates of its corner.
C19_RectangleBox ==
    primitive.type = "Rectangle" =>
        LET p == primitive.position
            q == <<p[1] + primitive.dimensions[1], p[2] + primitive.dimensions[2]>>
            positions == [i \in 1..Len(vertices) |-> vertices[i].position]
        IN  /\ TwoTrianglesCover(positions, p, <<q[1], p[2]>>, q, <<p[1], q[2]>>)
            /\ \A i \in 1..Len(vertices) :
                  /\ p[1] <= positions[i][1] /\ positions[i][1] <= q[1]
                  /\ p[2] <= positions[i][2] /\ positions[i][2] <= q[2]
                  /\ vertices[i].tex_coords[1] \in {0, 1}
                  /\ vertices[i].tex_coords[2] \in {0, 1}
                  /\ positions[i][1] = IF vertices[i].tex_coords[1] = 0 THEN p[1] ELSE q[1]
                  /\ positions[i][2] = IF vertices[i].tex_coords[2] = 0 THEN p[2] ELSE q[2]
            /\ \E i \in 1..Len(vertices) :
                  positions[i] = p /\ vertices[i].tex_coords = <<0, 0>>
            /\ \E i \in 1..Len(vertices) :
                  positions[i] = q /\ vertices[i].tex_coords = <<1, 1>>

\* C19 witness: the rectangle from (0,0) to (MaxCoord, MaxCoord) has been
\* tessellated.
C19_Witness ==
    /\ primitive.type = "Rectangle"
    /\ primitive.position = <<0, 0>> /\ primitive.dimensions = <<MaxCoord, MaxCoord>>
    /\ Len(vertices) = RectangleVertices

\* C20: a circle with detail 0 tessellates to no vertex and does not panic,
\* filled or not, with a border or without: adding it leaves every run of the
\* frame as it was.
C20_DegenerateCircle ==
    [][(last'.op \in {"add", "add_circle"} /\ last'.arg = "circle_detail_0") =>
            /\ last'.res = "Ok" /\ status' = "running"
            /\ Runs' = Runs
            /\ Len(emissions') = Len(emissions) + 1]_vars

\* C20 witness: a circle with detail 0 has been added to a frame that holds
\* vertices.
C20_Witness ==
    /\ last.op = "add" /\ last.arg = "circle_detail_0" /\ last.res = "Ok"
    /\ alive /\ shape_buffer # <<>> /\ Len(emissions) = MaxAdds

\* The extent of the vertices on the axis k.
Extent(buffer, k) == MaxOf(buffer, k) - MinOf(buffer, k)

\* C21: anchoring moves every vertex by (-bbox_width * ox, -bbox_height * oy)
\* from where the glyph loop put it; with the offset [0,0] nothing moves.
\* (The offset is counted in halves.)
C21_AnchorShift ==
    (primitive.type = "Text" /\ vertices # <<>>) =>
        LET before == Unanchored(primitive)
        IN  \A i \in 1..Len(vertices) :
              /\ 2 * (before[i].position[1] - vertices[i].position[1])
                   = Extent(before, 1) * primitive.offset[1]
              /\ 2 * (before[i].position[2] - vertices[i].position[2])
                   = Extent(before, 2) * primitive.offset[2]

\* C22: with the offset [0.5, 0.5] the bounding box of the vertices lies as
\* far to the left of the Text's position as to the right of it, and as far
\* above as below.
C22_CenteredSymmetric ==
    (primitive.type = "Text" /\ vertices # <<>> /\ primitive.offset = <<1, 1>>) =>
        \A k \in 1..2 :
            primitive.position[k] * Whole - MinOf(vertices, k)
                = MaxOf(vertices, k) - primitive.position[k] * Whole

\* C23: the quads scale with the Text's size: at twice the size every
\* distance between two vertices is twice what it is.
C23_ScalesWithSize ==
    (primitive.type = "Text" /\ vertices # <<>>) =>
        LET twice == Text_get_vertices([primitive EXCEPT !.text_size = 2 * @])
        IN  \A i, j \in 1..Len(vertices) : \A k \in 1..2 :
                twice[j].position[k] - twice[i].position[k]
                    = 2 * (vertices[j].position[k] - vertices[i].position[k])

\* C24: loading a font from corrupt bytes or from a missing file returns an
\* error to the caller: the process goes on, and the font registry and the
\* font stack are what they were.
C24_LoadFailureIsError ==
    [][(/\ last'.op \in {"add_font_from_memory", "add_font_from_file"}
        /\ last'.arg \in {"corrupt", "missing"}) =>
            /\ last'.res = "Err"
            /\ status' = "running"
            /\ fonts' = fonts
            /\ font_stack' = font_stack]_vars

\* C25: the engine is initialised once however many atlases are built and
\* however the callers interleave, and a caller that builds with it holds an
\* engine that has been initialised.
C25_InitialisedOnce ==
    /\ instances <= 1
    /\ \A t \in Callers : pc[t] = "build" => library[t] \in 1..instances

\* C26: when the draw of the frame's runs into the off-screen target
\* returned an error, draw_fxaa returns an error.
C26_FxaaPropagates ==
    (last.op = "draw_fxaa" /\ last.arg = "Err") => last.res = "Err"

\* The positions i..i+5 of the vertices.
SixFrom(i) == [k \in 1..6 |-> vertices[i + k - 1].position]

\* C27: a rectangle that is not filled is pushed as four lines, one along
\* each side, 24 vertices: two triangles each that together are the strip of
\* the rectangle's thickness along that side (the top and the bottom from
\* corner to corner, the right and the left reaching half the thickness past
\* the corners), and never as the two triangles of the box.
C27_UnfilledIsFourLines ==
    (primitive.type = "FrameRectangle" /\ ~primitive.filled) =>
        LET l == Round(primitive.top_left[1])
            t == Round(primitive.top_left[2])
            r == Round(primitive.bottom_right[1])
            b == Round(primitive.bottom_right[2])
            h == primitive.thickness
        IN  /\ Len(vertices) = 4 * LineVertices
            /\ TwoTrianglesCover(SixFrom(1), <<l, t - h>>, <<r, t - h>>,
                                 <<r, t + h>>, <<l, t + h>>)
            /\ TwoTrianglesCover(SixFrom(1 + LineVertices),
                                 <<r - h, t - h>>, <<r + h, t - h>>,
                                 <<r + h, b + h>>, <<r - h, b + h>>)
            /\ TwoTrianglesCover(SixFrom(1 + 2 * LineVertices),
                                 <<l, b - h>>, <<r, b - h>>,
                                 <<r, b + h>>, <<l, b + h>>)
            /\ TwoTrianglesCover(SixFrom(1 + 3 * LineVertices),
                                 <<l - h, t - h>>, <<l + h, t - h>>,
                                 <<l + h, b + h>>, <<l - h, b + h>>)
            /\ vertices # add_rect_filled(<<l, t>>, <<r, b>>)

\* C27 witness: a rectangle that is not filled, with a corner that rounding
\* moved, came out as 24 vertices.
C27_Witness ==
    /\ primitive.type = "FrameRectangle" /\ ~primitive.filled
    /\ Round(primitive.top_left[1]) # primitive.top_left[1]
    /\ primitive.thickness = MaxThickness
    /\ Len(vertices) = 4 * LineVertices

\* C28: a Circle of detail n gives, for each i of 0..n-1 in order, the wedge
\* (point i, point i+1, center) if and only if it is filled and then the six
\* vertices of the outline segment from point i to point i+1 if and only if a
\* border is set: n * (3 if filled + 6 if a border is set) vertices.
C28_CircleSegments ==
    primitive.type = "Circle" =>
        LET n == primitive.detail
            wedge == IF primitive.filled THEN WedgeVertices ELSE 0
            outline == IF primitive.border THEN LineVertices ELSE 0
            at(i, k) == vertices[i * (wedge + outline) + k].position
        IN  /\ Len(vertices) = n * (wedge + outline)
            /\ \A i \in 0..(n - 1) :
                /\ primitive.filled =>
                      /\ at(i, 1) = PointAt(i)
                      /\ at(i, 2) = PointAt(i + 1)
                      /\ at(i, 3) = Center
                /\ primitive.border =>
                      \A k \in 1..LineVertices :
                          at(i, wedge + k) = OutlineAt(i, i + 1, k)
            /\ \A v \in 1..Len(vertices) :
                /\ vertices[v].position.of \in {"point", "center"} => primitive.filled
                /\ vertices[v].position.of = "get_line" => primitive.border

\* C28 witness: a filled circle with a border and two segments at least came
\* out as wedge, outline, wedge, outline.
C28_Witness ==
    /\ primitive.type = "Circle" /\ primitive.filled /\ primitive.border
    /\ primitive.detail >= 2
    /\ Len(vertices) = primitive.detail * (WedgeVertices + LineVertices)
    /\ vertices[WedgeVertices + LineVertices + 1].position = PointAt(1)

\* C29: in the second pass every glyph's bitmap is copied, row by row, to
\* columns x .. x + width - 1 of rows 0 .. rows - 1 of the image of
\* width * height bytes the first pass sized: the columns end within the
\* width and before the next glyph's begin (so no two glyphs overlap), the
\* rows within the height, the last byte written lies within the image, and
\* the offset after the last glyph is the width.
C29_BlitsWithinImage ==
    atlas.built =>
        LET w == atlas.texture_dimensions[1]
            h == atlas.texture_dimensions[2]
            x(i) == atlas.glyphs[i].texture_x.num
            width(i) == atlas.glyphs[i].bitmap_width
            rows(i) == atlas.glyphs[i].bitmap_height
        IN  /\ Len(atlas.glyphs) = GlyphRange
            /\ \A i \in 1..GlyphRange :
                /\ 0 <= x(i) /\ x(i) + width(i) <= w
                /\ rows(i) <= h
                /\ (rows(i) > 0 /\ width(i) > 0) =>
                      x(i) + (rows(i) - 1) * w + width(i) <= w * h
                /\ i < GlyphRange => x(i) + width(i) < x(i + 1)
            /\ x(GlyphRange) + width(GlyphRange) + 1 = w

\* C29 witness: an atlas whose last glyph has pixels and is copied up to the
\* last column but one, under a first glyph that has none.
C29_Witness ==
    /\ atlas.built
    /\ atlas.glyphs[GlyphRange].bitmap_width = MaxBitmapWidth
    /\ atlas.glyphs[GlyphRange].bitmap_height = MaxBitmapRows
    /\ atlas.glyphs[1].bitmap_width = 0
    /\ atlas.glyphs[GlyphRange].texture_x.num + MaxBitmapWidth + 1
         = atlas.texture_dimensions[1]

\* C30: whatever adds and clears came before, every run holds a
\* multiple of 3 vertices; and an add that returns leaves the vertices the
\* frame held where they were, in both runs, and puts after those of one run
\* the vertices get_vertices returned for the primitive, all of them, in the
\* order returned.
C30_WholeTrianglesAppended ==
    [][/\ \A i \in 1..Len(Runs') : Len(Runs'[i]) % TriangleVertices = 0
       /\ (last'.op = "add" /\ last'.res = "Ok") =>
            \E shape \in Shapes(fonts) :
                LET k == IF shape.type = "Text" THEN 2 ELSE 1
                    old == Len(Runs[k])
                    count == VertexCount(shape)
                IN  /\ last'.arg = Given(shape)
                    /\ Runs'[3 - k] = Runs[3 - k]
                    /\ Len(Runs'[k]) = old + count
                    /\ SubSeq(Runs'[k], 1, old) = Runs[k]
                    /\ \A n \in 1..count :
                          /\ Runs'[k][old + n].prim = Len(emissions) + 1
                          /\ Runs'[k][old + n].n = n]_vars

\* C30 witness: a second primitive was added to a run that held the first,
\* and the run holds the vertices of the first, then those of the second.
C30_Witness ==
    /\ last.op = "add" /\ last.res = "Ok" /\ Len(emissions) = 2
    /\ Len(shape_buffer) > TriangleVertices
    /\ shape_buffer[1].prim = 1
    /\ shape_buffer[Len(shape_buffer)].prim = 2

====
